---- MODULE Spec2Model ----
(***************************************************************************)
(* Model of reposwarm_cli.py: the batch driver analyze_all_repositories    *)
(* and the per-repository pipeline SimpleInvestigator.analyze_repository   *)
(* with its helper _call_claude_api.  The file system (output directory,   *)
(* clone directories, temporary request files, prompt catalogs) and the    *)
(* external tools (git, curl) are part of the state or are inputs of the   *)
(* steps.                                                                  *)
(***************************************************************************)
EXTENDS Integers, Sequences, FiniteSets

VARIABLES repos, promptFS, outFiles, cloneDirs, tmpFiles,
          results, idx, pc, cur, summary,
          command, api_key, exit_status, trace, tree, lines, texts

\* the command line, the credential and the exit status of the process
cli == <<command, api_key, exit_status>>

\* the directory structure given to _build_file_tree, the list it fills and
\* the texts it has returned, one per run
treeVars == <<tree, lines, texts>>

vars == <<repos, promptFS, outFiles, cloneDirs, tmpFiles,
          results, idx, pc, cur, summary, cli, trace, treeVars>>

(* ----------------------------- bounds --------------------------------- *)

\* largest number of entries of the "repositories" mapping
MaxRepos == 2

(* ------------------------- values of the model ------------------------ *)

\* Python's None
None == [tag |-> "None"]

\* a Python str, as the sequence of its pieces
Str(toks) == [tag |-> "str", toks |-> toks]

\* a literal piece of a string
Lit(s) == [lit |-> s]

\* the piece of an f-string that is the rendering {value} of an object
Repr(v) == [repr |-> v]

\* a path that does not exist / a regular file with its content
NoFile == [tag |-> "absent"]
File(c) == [tag |-> "file", content |-> c]

\* text that is a JSON document with the given value / text that is not JSON
JsonText(v) == [json |-> TRUE, value |-> v]
Garbage == [json |-> FALSE]

\* a URL as the sequence of its '/'-separated segments, each segment being
\* the sequence of its pieces (so that ".git" can be found inside it)
UrlAGit == << <<"github.com">>, <<"u">>, <<"a", ".git">> >>
UrlB == << <<"github.com">>, <<"u">>, <<"b">> >>

RepoTypes == {"backend", "shared"}

\* the repository entries a config is built from
Pool == { [url |-> UrlAGit, type |-> "backend"],
          [url |-> UrlB, type |-> "shared"] }

\* the values of config["repositories"], in iteration order: up to MaxRepos
\* entries
Configs == UNION {[1..n -> Pool] : n \in 0..MaxRepos}

RECURSIVE RemoveAll(_, _)
\* str.replace(old, ''): every occurrence of the piece is removed
RemoveAll(seg, old) ==
    IF seg = <<>> THEN <<>>
    ELSE IF Head(seg) = old THEN RemoveAll(Tail(seg), old)
         ELSE <<Head(seg)>> \o RemoveAll(Tail(seg), old)

\* repo_url.split('/')[-1].replace('.git', '')
RepoName(repo_url) == RemoveAll(repo_url[Len(repo_url)], ".git")

Names == {RepoName(e.url) : e \in Pool}

\* output_dir / f"{repo_name}.arch.md"
OutputFile(repo_name) == [tag |-> "path", stem |-> repo_name, suffix |-> ".arch.md"]

(* ------------------------------ exceptions ---------------------------- *)

\* an exception object: its class and the pieces of str(e)
Exc(type, msg) == [type |-> type, msg |-> msg]

\* str(e)
StrOf(e) == Str(e.msg)

\* locals of analyze_repository when no call is active
Idle == [repo_name |-> <<>>, repo_type |-> "", prompts |-> <<>>,
         full_prompt |-> <<>>, arch_doc |-> "", exc |-> None, ret |-> None,
         clone |-> None, response |-> None, request_file |-> 0, out_before |-> NoFile,
         dir_before |-> [files |-> {}, clones |-> {}], events |-> <<>>]

(* -------------------------------- Init -------------------------------- *)

CatalogOf(d) == JsonText([prompts |-> <<[name |-> d, description |-> d]>>])

\* states of prompts/<d>/ : no directory, directory without prompts.json,
\* directory with a catalog, directory with a prompts.json that is not JSON
DirStates(d) == { [dir |-> FALSE, file |-> NoFile],
                  [dir |-> TRUE, file |-> NoFile],
                  [dir |-> TRUE, file |-> File(CatalogOf(d))],
                  [dir |-> TRUE, file |-> File(Garbage)] }

\* the subcommands of the command line (lines 348, 355)
Commands == {"analyze-all", "analyze-one"}

\* os.getenv('ANTHROPIC_API_KEY'): unset, empty, or a key
ApiKeys == {None, Str(<<>>), Str(<<Lit("sk-key")>>)}

\* a directory without entries
EmptyTree == {}

\* the state when main has parsed the command line: for analyze-one, repos
\* holds the one (--repo-url, --repo-type) pair
Init ==
    /\ command \in Commands
    /\ api_key \in ApiKeys
    /\ exit_status = <<>>
    /\ trace = <<>>
    /\ tree = EmptyTree
    /\ lines = <<>>
    /\ texts = <<>>
    /\ repos \in Configs
    /\ command = "analyze-one" => Len(repos) = 1
    /\ promptFS \in { f \in [RepoTypes -> UNION {DirStates(d) : d \in RepoTypes}] :
                        /\ \A d \in RepoTypes : f[d] \in DirStates(d)
                        /\ f["shared"].file # File(Garbage)
                        /\ f["shared"].dir => f["shared"].file # NoFile }
    /\ outFiles \in [Names -> {NoFile, File("old")}]
    /\ cloneDirs = {}
    /\ tmpFiles = {}
    /\ results = <<>>
    /\ idx = 1
    /\ pc = "main"
    /\ cur = Idle
    /\ summary = None

(* ------------------------- helpers of the steps ----------------------- *)

\* the entries of the output directory: the output files and the clone
\* directories that exist
OutputDir(files, dirs) ==
    [files |-> {n \in DOMAIN files : files[n] # NoFile}, clones |-> dirs]

\* the stages of the run so far, with one more
Traced(ev) == Append(trace, [repo |-> idx, ev |-> ev])

\* the current call's locals with some fields replaced and an event logged
Log(c, ev) == [c EXCEPT !.events = Append(@, ev)]

\* raise inside the try block of analyze_repository: control goes to the
\* except clause (line 114) with the exception bound to e
Raise(c, e) == [c EXCEPT !.exc = e]

\* a test that lets a non-zero exit status of git through
CloneFailedOnlyOnSignal(returncode) == returncode < 0

\* if result.returncode != 0  (line 66)
CloneFailed(returncode) == returncode # 0

\* outcomes of subprocess.run(["git", "clone", ...], timeout=300)
CloneOutcomes == { [kind |-> "exit", returncode |-> 0, stderr |-> ""],
                   [kind |-> "exit", returncode |-> 128,
                    stderr |-> "fatal: repository not found"],
                   [kind |-> "timeout"] }

\* str() of subprocess.TimeoutExpired
TimeoutMsg(cmd) == <<Lit("Command "), Lit(cmd), Lit(" timed out")>>

\* lines 72-74: prompts/<repo_type>, or prompts/shared when that directory
\* does not exist
PromptsDir(fs, repo_type) == IF ~fs[repo_type].dir THEN "shared" ELSE repo_type

\* lines 76-83 and 100: the prompt list handed to _call_claude_api; Garbage
\* content makes json.load raise
PromptsFile(fs, repo_type) == fs[PromptsDir(fs, repo_type)].file

LoadedPrompts(file) ==
    IF file = NoFile THEN <<>>
    ELSE IF "prompts" \in DOMAIN file.content.value
         THEN file.content.value.prompts ELSE <<>>

(* --------------------------------- main ------------------------------- *)

\* if not anthropic_api_key  (line 368)
Falsy(v) == v = None \/ v = Str(<<>>)

\* lines 366-386: the credential test and the dispatch on the subcommand;
\* for analyze-all lines 272-287 (config loaded, results = []), for
\* analyze-one lines 321-325
Main ==
    /\ pc = "main"
    /\ IF Falsy(api_key)
       THEN /\ exit_status' = <<1>>
            /\ pc' = "exited"
       ELSE /\ exit_status' = exit_status
            /\ pc' = IF command = "analyze-all" THEN "loop" ELSE "one"
    /\ UNCHANGED <<repos, promptFS, outFiles, cloneDirs, tmpFiles, results, idx, cur,
                   summary, command, api_key, trace, treeVars>>

\* lines 334-335: sys.exit(1) when the analysis failed; otherwise
\* analyze_one_repository and main return and the process exits with 0
OneReturn ==
    /\ pc = "returned"
    /\ command = "analyze-one"
    /\ exit_status' = IF ~cur.ret.success THEN <<1>> ELSE <<0>>
    /\ pc' = "exited"
    /\ UNCHANGED <<repos, promptFS, outFiles, cloneDirs, tmpFiles, results, idx, cur,
                   summary, command, api_key, trace, treeVars>>

\* lines 373-386: asyncio.run returns and main ends (status 0), or the
\* exception that left the coroutine ends the process with a traceback
\* (status 1)
MainReturn ==
    /\ pc \in {"done", "crashed"}
    /\ exit_status' = IF pc = "crashed" THEN <<1>> ELSE <<0>>
    /\ pc' = "exited"
    /\ UNCHANGED <<repos, promptFS, outFiles, cloneDirs, tmpFiles, results, idx, cur,
                   summary, command, api_key, trace, treeVars>>

(* ------------------- analyze_all_repositories: the loop --------------- *)

\* lines 43-54: analyze_repository derives the names and creates the clone
\* directory.  mkdir is outside the try block: when it raises, the exception
\* leaves analyze_repository and its caller.
BeginCall(entry) ==
    LET repo_name == RepoName(entry.url)
        c == [Idle EXCEPT !.repo_name = repo_name,
                          !.repo_type = entry.type,
                          !.out_before = outFiles[repo_name],
                          !.dir_before = OutputDir(outFiles, cloneDirs),
                          !.events = <<"mkdir">>]
    IN /\ \E ok \in BOOLEAN :
            IF ok
            THEN /\ cloneDirs' = cloneDirs \cup {repo_name}
                 /\ cur' = c
                 /\ pc' = "clone"
            ELSE /\ cloneDirs' = cloneDirs
                 /\ cur' = Raise(c, Exc("OSError", <<Lit("mkdir failed")>>))
                 /\ pc' = "crashed"
       /\ trace' = Traced("mkdir")

\* lines 290-295: the loop takes the next entry and calls analyze_repository
CallAnalyze ==
    /\ pc = "loop"
    /\ idx <= Len(repos)
    /\ BeginCall(repos[idx])
    /\ UNCHANGED <<repos, promptFS, outFiles, tmpFiles, results, idx, summary, cli, treeVars>>

\* lines 321-332: analyze_one_repository calls analyze_repository with the
\* --repo-url and --repo-type of the command line
AnalyzeOne ==
    /\ pc = "one"
    /\ BeginCall(repos[1])
    /\ UNCHANGED <<repos, promptFS, outFiles, tmpFiles, results, idx, summary, cli, treeVars>>

\* lines 57-69: git clone --depth=1 with a timeout
Clone ==
    /\ pc = "clone"
    /\ \E o \in CloneOutcomes :
         IF o.kind = "timeout"
         THEN /\ cur' = Raise([Log(cur, "fetch") EXCEPT !.clone = o],
                              Exc("TimeoutExpired", TimeoutMsg("git clone")))
              /\ pc' = "except"
         ELSE IF CloneFailed(o.returncode)
         THEN /\ cur' = Raise([Log(cur, "fetch") EXCEPT !.clone = o],
                              Exc("Exception", <<Lit("Git clone failed: "), Lit(o.stderr)>>))
              /\ pc' = "except"
         ELSE /\ cur' = [Log(cur, "fetch") EXCEPT !.clone = o]
              /\ pc' = "prompts"
    /\ trace' = Traced("fetch")
    /\ UNCHANGED <<repos, promptFS, outFiles, cloneDirs, tmpFiles, results, idx, summary, cli, treeVars>>

\* lines 71-83: load the prompt catalog
LoadPrompts ==
    /\ pc = "prompts"
    /\ LET file == PromptsFile(promptFS, cur.repo_type)
       IN IF file # NoFile /\ ~file.content.json
          THEN /\ cur' = Raise(Log(cur, "catalog"),
                               Exc("JSONDecodeError", <<Lit("Expecting value")>>))
               /\ pc' = "except"
          ELSE /\ cur' = [Log(cur, "catalog") EXCEPT !.prompts = LoadedPrompts(file)]
               /\ pc' = "extract"
    /\ trace' = Traced("catalog")
    /\ UNCHANGED <<repos, promptFS, outFiles, cloneDirs, tmpFiles, results, idx, summary, cli, treeVars>>

\* lines 88-92: _build_file_tree and _read_key_files; iterdir can raise an
\* OSError other than PermissionError, which is not caught in the walk
Extract ==
    /\ pc = "extract"
    /\ \E ok \in BOOLEAN :
         IF ok
         THEN /\ cur' = Log(cur, "extract")
              /\ pc' = "api_request"
         ELSE /\ cur' = Raise(Log(cur, "extract"), Exc("OSError", <<Lit("iterdir failed")>>))
              /\ pc' = "except"
    /\ trace' = Traced("extract")
    /\ UNCHANGED <<repos, promptFS, outFiles, cloneDirs, tmpFiles, results, idx, summary, cli, treeVars>>

(* --------------------------- _call_claude_api ------------------------- *)

\* prompt.get('description', prompt.get('name', 'Unknown'))  (line 225)
PromptLine(prompt) ==
    IF "description" \in DOMAIN prompt THEN prompt.description
    ELSE IF "name" \in DOMAIN prompt THEN prompt.name ELSE "Unknown"

\* prompts[:5]  (line 224)
PromptLimit == 5
FirstPrompts(prompts) ==
    SubSeq(prompts, 1, IF Len(prompts) < PromptLimit THEN Len(prompts) ELSE PromptLimit)

\* the assembled prompt without the test `if prompts:` of line 222
PromptPartsAlwaysPoints(repo_name, repo_type, prompts) ==
    << [section |-> "title", name |-> repo_name],
       [section |-> "type", type |-> repo_type],
       [section |-> "structure"],
       [section |-> "request"],
       [section |-> "points",
        lines |-> [i \in 1..Len(FirstPrompts(prompts)) |->
                     PromptLine(FirstPrompts(prompts)[i])]] >>

\* lines 202-227: the sections of the assembled prompt, in order
PromptParts(repo_name, repo_type, prompts) ==
    << [section |-> "title", name |-> repo_name],
       [section |-> "type", type |-> repo_type],
       [section |-> "structure"],
       [section |-> "request"] >>
    \o (IF prompts # <<>>
        THEN << [section |-> "points",
                 lines |-> [i \in 1..Len(FirstPrompts(prompts)) |->
                              PromptLine(FirstPrompts(prompts)[i])]] >>
        ELSE <<>>)

\* lines 229-242: the request is written to a NamedTemporaryFile(delete=False).
\* This is before the try block of line 244: when json.dump raises, the file
\* stays and the exception goes to analyze_repository.
ApiRequest ==
    /\ pc = "api_request"
    /\ LET c == [cur EXCEPT !.request_file = idx,
                            !.full_prompt = PromptParts(cur.repo_name, cur.repo_type,
                                                        cur.prompts)]
       IN \E written \in BOOLEAN :
            /\ tmpFiles' = tmpFiles \cup {idx}
            /\ IF written
               THEN /\ cur' = c
                    /\ pc' = "api_call"
               ELSE /\ cur' = Raise(c, Exc("OSError", <<Lit("No space left on device")>>))
                    /\ pc' = "except"
    /\ UNCHANGED <<repos, promptFS, outFiles, cloneDirs, results, idx, summary, cli, trace, treeVars>>

\* what curl can leave on stdout
Responses == { Garbage,
               JsonText([type |-> "error"]),
               JsonText([content |-> <<>>]),
               JsonText([content |-> <<[type |-> "tool_use"]>>]),
               JsonText([content |-> <<[type |-> "text", text |-> ""]>>]),
               JsonText([content |-> <<[type |-> "text", text |-> "doc"]>>]) }

\* outcomes of subprocess.run(['curl', ...], timeout=120)
CurlOutcomes == {[kind |-> "timeout"]} \cup {[kind |-> "exit", stdout |-> r] : r \in Responses}

\* 'content' in response_data and len(response_data['content']) > 0  (line 256)
ResponseAccepted(response_data) ==
    /\ "content" \in DOMAIN response_data
    /\ Len(response_data.content) > 0

\* lines 254-259: the value returned by the try block, or the exception raised
ParseResponse(stdout) ==
    IF ~stdout.json
    THEN [raised |-> TRUE, exc |-> Exc("JSONDecodeError", <<Lit("Expecting value")>>)]
    ELSE IF ResponseAccepted(stdout.value)
    THEN IF "text" \in DOMAIN stdout.value.content[1]
         THEN [raised |-> FALSE, value |-> stdout.value.content[1].text]
         ELSE [raised |-> TRUE, exc |-> Exc("KeyError", <<Lit("'text'")>>)]
    ELSE [raised |-> TRUE,
          exc |-> Exc("Exception", <<Lit("Claude API error: "), Repr(stdout.value)>>)]

\* Path(request_file).unlink(missing_ok=True)  (line 262)
Unlink(files, request_file) == files \ {request_file}

\* lines 244-262: curl, json.loads, the shape test, and the finally clause
ApiCall ==
    /\ pc = "api_call"
    /\ tmpFiles' = Unlink(tmpFiles, cur.request_file)
    /\ \E o \in CurlOutcomes :
         IF o.kind = "timeout"
         THEN /\ cur' = Raise(Log(cur, "invoke"), Exc("TimeoutExpired", TimeoutMsg("curl")))
              /\ pc' = "except"
         ELSE LET r == ParseResponse(o.stdout)
              IN IF r.raised
                 THEN /\ cur' = Raise([Log(cur, "invoke") EXCEPT !.response = o.stdout],
                                      r.exc)
                      /\ pc' = "except"
                 ELSE /\ cur' = [Log(cur, "invoke") EXCEPT !.response = o.stdout,
                                                           !.arch_doc = r.value]
                      /\ pc' = "write"
    /\ trace' = Traced("invoke")
    /\ UNCHANGED <<repos, promptFS, outFiles, cloneDirs, results, idx, summary, cli, treeVars>>

(* ------------------ analyze_repository: write and return -------------- *)

\* the dict returned on success (lines 107-112) and on failure (116-121)
SuccessResult(repo_name) ==
    [success |-> TRUE, repo_name |-> repo_name,
     output_file |-> OutputFile(repo_name), error |-> None]

\* a failure dict that still names the output path
FailureResultWithPath(repo_name, e) ==
    [success |-> FALSE, repo_name |-> repo_name,
     output_file |-> OutputFile(repo_name), error |-> StrOf(e)]

FailureResult(repo_name, e) ==
    [success |-> FALSE, repo_name |-> repo_name,
     output_file |-> None, error |-> StrOf(e)]

\* outcomes of output_file.write_text(arch_doc): written; open() raised and
\* the path is untouched; open() created or truncated the file and the write
\* raised (encoding error, full disk)
WriteOutcomes == {"written", "open_failed", "write_failed"}

\* the exception write_text raises
WriteError(o) ==
    IF o = "open_failed"
    THEN Exc("PermissionError", <<Lit("Permission denied: "), Lit("output_file")>>)
    ELSE Exc("UnicodeEncodeError", <<Lit("codec can't encode character")>>)

\* lines 103-112
WriteOutput ==
    /\ pc = "write"
    /\ \E o \in WriteOutcomes :
         IF o = "written"
         THEN /\ outFiles' = [outFiles EXCEPT ![cur.repo_name] = File(cur.arch_doc)]
              /\ cur' = [Log(cur, "write") EXCEPT !.ret = SuccessResult(cur.repo_name)]
              /\ pc' = "finally"
         ELSE /\ outFiles' = IF o = "write_failed"
                             THEN [outFiles EXCEPT ![cur.repo_name] = File("")]
                             ELSE outFiles
              /\ cur' = Raise(Log(cur, "write"), WriteError(o))
              /\ pc' = "except"
    /\ trace' = Traced("write")
    /\ UNCHANGED <<repos, promptFS, cloneDirs, tmpFiles, results, idx, summary, cli, treeVars>>

\* lines 114-121: except Exception as e
Except ==
    /\ pc = "except"
    /\ cur' = [cur EXCEPT !.ret = FailureResult(cur.repo_name, cur.exc)]
    /\ pc' = "finally"
    /\ UNCHANGED <<repos, promptFS, outFiles, cloneDirs, tmpFiles, results, idx, summary, cli, trace, treeVars>>

\* shutil.rmtree(clone_dir, ignore_errors=True): the tree is removed, or a
\* removal fails and the error is swallowed
Rmtree(dirs, repo_name, removed) == IF removed THEN dirs \ {repo_name} ELSE dirs

\* lines 123-126: the finally clause, then the return
Finally ==
    /\ pc = "finally"
    /\ \E removed \in BOOLEAN :
         cloneDirs' = IF cur.repo_name \in cloneDirs
                      THEN Rmtree(cloneDirs, cur.repo_name, removed)
                      ELSE cloneDirs
    /\ cur' = Log(cur, "cleanup")
    /\ pc' = "returned"
    /\ trace' = Traced("cleanup")
    /\ UNCHANGED <<repos, promptFS, outFiles, tmpFiles, results, idx, summary, cli, treeVars>>

(* --------------- analyze_all_repositories: append and summary --------- *)

\* a driver that calls the pipeline again when the result is a failure
AppendResultOrRetry ==
    /\ pc = "returned"
    /\ command = "analyze-all"
    /\ IF cur.ret.success
       THEN /\ results' = Append(results, cur.ret)
            /\ idx' = idx + 1
            /\ cur' = Idle
            /\ pc' = "loop"
       ELSE /\ results' = results
            /\ idx' = idx
            /\ cur' = [cur EXCEPT !.exc = None, !.ret = None]
            /\ pc' = "clone"
    /\ UNCHANGED <<repos, promptFS, outFiles, cloneDirs, tmpFiles, summary, cli, trace, treeVars>>

\* line 296: results.append(result)
AppendResult ==
    /\ pc = "returned"
    /\ command = "analyze-all"
    /\ results' = Append(results, cur.ret)
    /\ idx' = idx + 1
    /\ cur' = Idle
    /\ pc' = "loop"
    /\ UNCHANGED <<repos, promptFS, outFiles, cloneDirs, tmpFiles, summary, cli, trace, treeVars>>

\* the indices of the failed results, in order
RECURSIVE FailedLines(_)
FailedLines(rs) ==
    IF rs = <<>> THEN <<>>
    ELSE (IF ~Head(rs).success
          THEN <<[repo_name |-> Head(rs).repo_name, error |-> Head(rs).error]>>
          ELSE <<>>) \o FailedLines(Tail(rs))

\* lines 298-310: the summary printed after the loop
Summary ==
    /\ pc = "loop"
    /\ idx > Len(repos)
    /\ summary' = [successful |-> Cardinality({i \in 1..Len(results) : results[i].success}),
                   total |-> Len(results),
                   failed |-> FailedLines(results)]
    /\ pc' = "done"
    /\ UNCHANGED <<repos, promptFS, outFiles, cloneDirs, tmpFiles, results, idx, cur, cli, trace, treeVars>>

Next ==
    \/ Main
    \/ AnalyzeOne
    \/ OneReturn
    \/ MainReturn
    \/ CallAnalyze
    \/ Clone
    \/ LoadPrompts
    \/ Extract
    \/ ApiRequest
    \/ ApiCall
    \/ WriteOutput
    \/ Except
    \/ Finally
    \/ AppendResult
    \/ Summary

Spec == Init /\ [][Next]_vars

(* ------------------------- _build_file_tree --------------------------- *)

\* strings are sequences of code points, so that names compare as Python
\* compares str and an f-string is a concatenation
NameA == <<97>>
NameB == <<98>>
NameSrc == <<115, 114, 99>>
NameVenv == <<118, 101, 110, 118>>
NameReadme == <<82, 69, 65, 68, 77, 69>>

\* line 140: the names the walk skips
IgnoreSet ==
    { <<46, 103, 105, 116>>,
      <<110, 111, 100, 101, 95, 109, 111, 100, 117, 108, 101, 115>>,
      <<95, 95, 112, 121, 99, 97, 99, 104, 101, 95, 95>>,
      <<118, 101, 110, 118>>,
      <<46, 118, 101, 110, 118>>,
      <<100, 105, 115, 116>>,
      <<98, 117, 105, 108, 100>> }

\* lines 144-145: the connectors and the two indentations
LastConnector == <<9492, 9472, 9472, 32>>
MidConnector == <<9500, 9472, 9472, 32>>
Blank == <<32, 32, 32, 32>>
Bar == <<9474, 32, 32, 32>>

\* line 128: the default of the parameter max_depth
max_depth == 3

\* deepest nesting of directories in the structures given to the walk
MaxNest == 5

\* number of runs of _build_file_tree over one structure
MaxRuns == 2

\* an entry of the directory structure: its path below the repository root,
\* whether it is a directory, and whether listing it is permitted
Entry(path, is_dir, readable) ==
    [path |-> path, is_dir |-> is_dir, readable |-> readable]

\* item.name
Name(e) == e.path[Len(e.path)]

\* the directory a/a/.../a nested n deep (the root for n = 0)
ChainPath(n) == [i \in 1..n |-> NameA]

\* what a directory of the chain can hold beside the next directory of the
\* chain: a directory src, a directory venv holding a file, files README, b
Siblings == {"src", "venv", "README", "b"}

\* the entries that a sibling adds to the directory at path
SiblingEntries(path, s) ==
    CASE s = "src"    -> {Entry(path \o <<NameSrc>>, TRUE, TRUE),
                          Entry(path \o <<NameSrc, NameB>>, FALSE, TRUE)}
      [] s = "venv"   -> {Entry(path \o <<NameVenv>>, TRUE, TRUE),
                          Entry(path \o <<NameVenv, NameB>>, FALSE, TRUE)}
      [] s = "README" -> {Entry(path \o <<NameReadme>>, FALSE, TRUE)}
      [] s = "b"      -> {Entry(path \o <<NameB>>, FALSE, TRUE)}

\* a repository: a chain of k nested directories, the u-th of which cannot
\* be listed (u = 0: none), and the siblings S in the directories at levels lv
TreeOf(k, u, lv, S) ==
    {Entry(ChainPath(n), TRUE, n # u) : n \in 1..k}
      \cup UNION {SiblingEntries(ChainPath(l), s) : l \in lv \cap (0..k), s \in S}

\* the directory structures the walk is run on
Trees ==
    {TreeOf(k, u, lv, S) :
        k \in 0..MaxNest, u \in 0..MaxNest, S \in SUBSET Siblings,
        lv \in {{}} \cup {{l} : l \in 0..MaxNest} \cup {0..MaxNest}}

\* the orders in which path.iterdir() can yield names: any
RECURSIVE Perms(_)
Perms(S) ==
    IF S = {} THEN {<<>>}
    ELSE UNION {{<<x>> \o p : p \in Perms(S \ {x})} : x \in S}

IterdirOrders == Perms({NameA, NameB, NameSrc, NameVenv, NameReadme})

\* line 137: path.iterdir(), the children of path in the order of the run
Iterdir(t, order, path) ==
    LET kids == {e \in t : /\ Len(e.path) = Len(path) + 1
                           /\ SubSeq(e.path, 1, Len(path)) = path}
        present == SelectSeq(order, LAMBDA n : \E e \in kids : Name(e) = n)
    IN  [i \in 1..Len(present) |-> CHOOSE e \in kids : Name(e) = present[i]]

\* line 137: path.iterdir() raises PermissionError
Readable(t, path) ==
    \/ path = <<>>
    \/ \E e \in t : e.path = path /\ e.readable

\* comparison of str: by code point, a proper prefix first
RECURSIVE LexLess(_, _)
LexLess(s, t) ==
    IF s = <<>> THEN t # <<>>
    ELSE IF t = <<>> THEN FALSE
    ELSE IF Head(s) # Head(t) THEN Head(s) < Head(t)
    ELSE LexLess(Tail(s), Tail(t))

\* a sort key that looks at the name only
KeyLessByName(x, y) == LexLess(Name(x), Name(y))

\* line 137: the key (not x.is_dir(), x.name), compared as tuples
KeyLess(x, y) ==
    IF x.is_dir # y.is_dir THEN x.is_dir
    ELSE LexLess(Name(x), Name(y))

\* sorted() is stable: an item goes behind the items that are not greater
RECURSIVE Insert(_, _)
Insert(x, s) ==
    IF s = <<>> THEN <<x>>
    ELSE IF KeyLess(x, Head(s)) THEN <<x>> \o s
    ELSE <<Head(s)>> \o Insert(x, Tail(s))

RECURSIVE SortedUpTo(_, _)
SortedUpTo(s, n) ==
    IF n = 0 THEN <<>> ELSE Insert(s[n], SortedUpTo(s, n - 1))

\* line 137: sorted(path.iterdir(), key=...)
Sorted(s) == SortedUpTo(s, Len(s))

\* lines 132-134 with a bound that stops one level early
DepthExceededEarly(depth) == depth >= max_depth

\* lines 133-134: if depth > max_depth: return
DepthExceeded(depth) == depth > max_depth

\* line 143: is_last = i == len(items) - 1 (the index counts from 1 here)
IsLast(items, i) == i = Len(items)

\* lines 132-152: walk_dir and its loop; the value is what they append to
\* lines, each line with the path of the item it was made for
RECURSIVE WalkDir(_, _, _, _, _)
RECURSIVE WalkItems(_, _, _, _, _, _)
WalkDir(t, order, path, prefix, depth) ==
    IF DepthExceeded(depth) THEN <<>>
    ELSE IF ~Readable(t, path) THEN <<>>
    ELSE WalkItems(t, order, Sorted(Iterdir(t, order, path)), 1, prefix, depth)

WalkItems(t, order, items, i, prefix, depth) ==
    IF i > Len(items) THEN <<>>
    ELSE LET item == items[i]
             is_last == IsLast(items, i)
             current_prefix == IF is_last THEN LastConnector ELSE MidConnector
             next_prefix == IF is_last THEN Blank ELSE Bar
             line == [text |-> prefix \o current_prefix \o Name(item),
                      path |-> item.path]
         IN  IF Name(item) \in IgnoreSet
             THEN WalkItems(t, order, items, i + 1, prefix, depth)
             ELSE <<line>>
                    \o (IF item.is_dir
                        THEN WalkDir(t, order, item.path,
                                     prefix \o next_prefix, depth + 1)
                        ELSE <<>>)
                    \o WalkItems(t, order, items, i + 1, prefix, depth)

\* line 155: "\n".join(lines)
RECURSIVE Join(_)
Join(ls) ==
    IF ls = <<>> THEN <<>>
    ELSE IF Len(ls) = 1 THEN ls[1].text
    ELSE ls[1].text \o <<10>> \o Join(Tail(ls))

\* lines 128-155: one run of _build_file_tree over the structure, with the
\* order of iterdir an input of the run
BuildFileTree ==
    /\ pc = "tree"
    /\ Len(texts) < MaxRuns
    /\ \E order \in IterdirOrders :
         /\ lines' = WalkDir(tree, order, <<>>, <<>>, 0)
         /\ texts' = Append(texts, Join(lines'))
    /\ UNCHANGED <<repos, promptFS, outFiles, cloneDirs, tmpFiles, results,
                   idx, pc, cur, summary, cli, trace, tree>>

\* line 89: the cloned repository that _build_file_tree is called with
InitTree ==
    /\ command = "analyze-one"
    /\ api_key = Str(<<Lit("sk-key")>>)
    /\ exit_status = <<>>
    /\ trace = <<>>
    /\ tree \in Trees
    /\ lines = <<>>
    /\ texts = <<>>
    /\ repos = <<>>
    /\ promptFS = [d \in RepoTypes |-> [dir |-> FALSE, file |-> NoFile]]
    /\ outFiles = [n \in Names |-> NoFile]
    /\ cloneDirs = {}
    /\ tmpFiles = {}
    /\ results = <<>>
    /\ idx = 1
    /\ pc = "tree"
    /\ cur = Idle
    /\ summary = None

NextTree == BuildFileTree

SpecTree == InitTree /\ [][NextTree]_vars

(* ------------------------------ properties ---------------------------- *)

\* analyze_all_repositories has ended: by returning, or by an exception
Terminated == command = "analyze-all" /\ pc \in {"done", "crashed"}

\* analyze_repository has returned its dict to the caller
Returned == pc = "returned"

\* membership of a stage in the log of the current call
Did(ev) == \E i \in 1..Len(cur.events) : cur.events[i] = ev

\* a piece occurs in a string
Includes(str, piece) == \E i \in 1..Len(str.toks) : str.toks[i] = piece

\* C1: when analyze_all_repositories ends, results has one element per entry
\* of the config, the i-th belonging to the i-th entry, whatever stage failed.
C1_OneResultPerEntry ==
    Terminated =>
        /\ Len(results) = Len(repos)
        /\ \A i \in 1..Len(repos) : results[i].repo_name = RepoName(repos[i].url)

\* C2: every failure raised at a step of analyze_repository is returned as a
\* result with success=false and error = the failure's message; none reaches
\* the batch driver as an exception.
C2_EveryFailureReturned ==
    cur.exc # None =>
        /\ pc # "crashed"
        /\ Returned => cur.ret = FailureResult(cur.repo_name, cur.exc)

\* C3: when the analysis of some repository has failed, the run still starts
\* the pipeline of every later repository and produces the summary.
C3_FailureDoesNotStopBatch ==
    (/\ Terminated
     /\ \/ cur.exc # None
        \/ \E i \in 1..Len(results) : ~results[i].success)
    => /\ idx = Len(repos) + 1
       /\ summary # None

\* C4: when analyze_repository returns, on every path, its clone directory
\* does not exist.
C4_CloneDirRemoved ==
    Returned => cur.repo_name \notin cloneDirs

\* C5: when analyze_repository returns success=false, the output file is as
\* it was before the call: not created, and not changed if it existed.
C5_FailureLeavesOutputUntouched ==
    (Returned /\ ~cur.ret.success) => outFiles[cur.repo_name] = cur.out_before

\* C6: when analyze_repository returns success=true, the output file exists
\* and is not empty.
C6_SuccessOutputNonEmpty ==
    (Returned /\ cur.ret.success) =>
        /\ outFiles[cur.repo_name] # NoFile
        /\ outFiles[cur.repo_name].content # ""

\* the fetch of the current call timed out or exited non-zero
FetchFailed ==
    /\ cur.clone # None
    /\ \/ cur.clone.kind = "timeout"
       \/ cur.clone.kind = "exit" /\ cur.clone.returncode # 0

\* the error string carries the fetch tool's diagnostic
CarriesFetchDiagnostic(error) ==
    IF cur.clone.kind = "timeout"
    THEN error = Str(TimeoutMsg("git clone"))
    ELSE /\ Includes(error, Lit("Git clone failed: "))
         /\ Includes(error, Lit(cur.clone.stderr))

\* C7: after a fetch that timed out or exited non-zero, the call returns
\* success=false with the fetch diagnostic as error, and for that repository
\* there is no catalog load, no extraction, no model invocation and no write.
C7_FetchFailureStopsPipeline ==
    FetchFailed =>
        /\ ~Did("extract") /\ ~Did("invoke") /\ ~Did("write")
        /\ cur.request_file = 0
        /\ outFiles[cur.repo_name] = cur.out_before
        /\ Returned =>
             /\ ~cur.ret.success
             /\ cur.ret.error # None
             /\ CarriesFetchDiagnostic(cur.ret.error)

\* witness of C7: a call whose clone exited non-zero has returned
C7_Witness ==
    /\ Returned
    /\ FetchFailed
    /\ cur.clone.kind = "exit"
    /\ ~cur.ret.success

\* the envelope has no 'content', an empty 'content', or a first segment
\* without 'text'
LacksContent(env) ==
    \/ "content" \notin DOMAIN env
    \/ Len(env.content) = 0
    \/ "text" \notin DOMAIN env.content[1]

\* C8: when the response envelope does not provide the expected content, the
\* result is a failure whose error includes the raw envelope.
C8_BadEnvelopeInError ==
    (/\ Returned
     /\ cur.response # None
     /\ cur.response.json
     /\ LacksContent(cur.response.value))
    => /\ ~cur.ret.success
       /\ Includes(cur.ret.error, Repr(cur.response.value))

\* C9: once _call_claude_api has ended, whatever its outcome, the temporary
\* request file it created does not exist.
C9_RequestFileRemoved ==
    (cur.request_file # 0 /\ pc \in {"write", "except", "finally", "returned"})
    => cur.request_file \notin tmpFiles

\* C10: when prompts/<type>/prompts.json does not exist and the shared
\* catalog exists, the prompts handed to _call_claude_api are the shared
\* catalog's.
C10_FallbackToShared ==
    (/\ pc = "api_call"
     /\ promptFS[cur.repo_type].file = NoFile
     /\ promptFS["shared"].file # NoFile)
    => cur.prompts = LoadedPrompts(promptFS["shared"].file)

\* neither prompts/<type>/prompts.json nor prompts/shared/prompts.json exists
NoCatalogFile ==
    /\ cur.repo_type \in RepoTypes
    /\ promptFS[cur.repo_type].file = NoFile
    /\ promptFS["shared"].file = NoFile

\* the assembled prompt has a "Specific Investigation Points" section
HasPoints(parts) == \E i \in 1..Len(parts) : parts[i].section = "points"

\* C11: when neither a type-specific nor a shared catalog file exists, the
\* catalog step raises nothing: the call goes on to extraction with an empty
\* prompt list, and the prompt assembled for the model invocation has no
\* investigation-points section.
C11_NoCatalogMeansEmptyPrompts ==
    NoCatalogFile =>
        /\ (Did("catalog") /\ ~Did("extract")) =>
              (pc = "extract" /\ cur.exc = None /\ cur.prompts = <<>>)
        /\ pc = "api_call" => (cur.prompts = <<>> /\ ~HasPoints(cur.full_prompt))

\* witness of C11: without any catalog file, the request has been assembled
\* and curl is about to run
C11_Witness ==
    /\ NoCatalogFile
    /\ pc = "api_call"
    /\ Did("catalog") /\ Did("extract")
    /\ cur.full_prompt # <<>>

\* the stage was run for the i-th entry of the config
Ran(i, ev) == \E k \in 1..Len(trace) : trace[k] = [repo |-> i, ev |-> ev]

\* C12: in a batch no two entries of the config write the same output file.
\* (The entries are the values of a mapping, so their names, the keys, are
\* distinct: the i-th and the j-th entry with i # j are two entries with
\* distinct names.)
C12_DistinctOutputFiles ==
    command = "analyze-all" =>
        \A i, j \in 1..Len(repos) :
            (i # j /\ Ran(i, "write") /\ Ran(j, "write"))
            => OutputFile(RepoName(repos[i].url)) # OutputFile(RepoName(repos[j].url))

\* the process has ended
Exited == pc = "exited"

\* C13: analyze-one exits with status 1 exactly when its analysis returned
\* success=false, and with status 0 otherwise; without a credential either
\* subcommand exits with status 1 before any directory is created, any fetch
\* started or any model call made.
C13_ExitStatus ==
    Exited =>
        /\ Falsy(api_key) =>
              /\ exit_status = <<1>>
              /\ trace = <<>> /\ cloneDirs = {} /\ tmpFiles = {} /\ cur = Idle
        /\ (~Falsy(api_key) /\ command = "analyze-one") =>
              /\ exit_status \in {<<0>>, <<1>>}
              /\ exit_status = <<1>> <=> (cur.ret # None /\ ~cur.ret.success)

\* the current call is a second run of analyze_repository with the inputs of
\* the run before it, whose output file exists
SecondRun ==
    /\ idx >= 2
    /\ idx <= Len(repos)
    /\ repos[idx] = repos[idx - 1]
    /\ Len(results) = idx - 1
    /\ results[idx - 1].success
    /\ cur.out_before # NoFile

\* C14: a second run with the same inputs, while the first run's output file
\* exists, does not fail because of that file: when no stage of the second
\* run fails it returns success=true, the output file holds the second run's
\* document, and the output directory has the entries it had after the first
\* run.
C14_RerunOverwrites ==
    (Returned /\ SecondRun /\ cur.exc = None) =>
        /\ cur.ret.success
        /\ outFiles[cur.repo_name] = File(cur.arch_doc)
        /\ OutputDir(outFiles, cloneDirs) = cur.dir_before

\* the stage was run for the i-th entry before position n of the trace
RanBefore(n, i, ev) == \E k \in 1..(n - 1) : trace[k] = [repo |-> i, ev |-> ev]

\* The newest stage of the run is in order.  (Every trace of a run is the
\* newest-stage extension of an earlier one, so this holding in every state
\* is the statement for all stages of the run.)  No stage is run twice for a
\* repository; the model service is invoked only after that repository's
\* fetch succeeded; the output is written only after the invocation returned
\* text; the cleanup comes after these stages, and the fetch of a repository
\* comes after the cleanup of the one before it.
SingleAttemptInOrder ==
    trace # <<>> =>
        LET n == Len(trace)
            last == trace[n]
        IN /\ ~RanBefore(n, last.repo, last.ev)
           /\ ~RanBefore(n, last.repo, "cleanup")
           /\ last.ev = "fetch" =>
                 \A i \in 1..(last.repo - 1) : RanBefore(n, i, "cleanup")
           /\ last.ev = "invoke" =>
                 /\ RanBefore(n, last.repo, "fetch")
                 /\ cur.clone # None
                 /\ cur.clone.kind = "exit"
                 /\ cur.clone.returncode = 0
           /\ last.ev = "write" =>
                 /\ RanBefore(n, last.repo, "invoke")
                 /\ cur.response # None
                 /\ cur.response.json
                 /\ ~LacksContent(cur.response.value)

\* C18 as stated: in every run, for each repository the fetch is invoked
\* exactly once and the model service at most once, the model service only
\* after the fetch succeeded, the write only after the invocation returned
\* text, the cleanup after these and before the next repository's fetch.
C18_FetchExactlyOnce ==
    /\ SingleAttemptInOrder
    /\ (Exited /\ ~Falsy(api_key)) =>
           \A i \in 1..Len(repos) : Ran(i, "fetch")

\* C18, amended: the fetch is invoked at most once for each repository, and
\* exactly once for each repository whose call created its working directory
\* and so reached its cleanup; the rest as stated.
C18_SingleAttempt ==
    /\ SingleAttemptInOrder
    /\ (trace # <<>> /\ trace[Len(trace)].ev = "cleanup") =>
           Ran(trace[Len(trace)].repo, "fetch")

\* witness of C18: a batch of two repositories has ended, each one fetched,
\* sent to the model, written and cleaned up
C18_Witness ==
    /\ Exited
    /\ command = "analyze-all"
    /\ Len(repos) = 2
    /\ \A i \in 1..2 : \A ev \in {"fetch", "invoke", "write", "cleanup"} : Ran(i, ev)

\* the pieces of the URL's last path segment other than ".git", in order
NotDotGit(piece) == piece # ".git"
NameFromLastSegment(url) == SelectSeq(url[Len(url)], NotDotGit)

\* the shape of a result dict for the entry with the given URL
ResultShape(r, url) ==
    /\ r.repo_name = NameFromLastSegment(url)
    /\ r.success \in BOOLEAN
    /\ r.success <=> (r.error = None /\ r.output_file = OutputFile(NameFromLastSegment(url)))
    /\ ~r.success <=> (r.error # None /\ r.error.tag = "str" /\ r.output_file = None)

Rendered == pc = "tree" /\ Len(texts) > 0

\* the directory an entry lies in
Parent(p) == SubSeq(p, 1, Len(p) - 1)

\* p lies beneath the directory d
Beneath(p, d) == Len(p) > Len(d) /\ SubSeq(p, 1, Len(d)) = d

\* the n-th group of four characters of a line
Column(i, n) == SubSeq(lines[i].text, 4 * (n - 1) + 1, 4 * n)

\* line i is the last line made for an entry of its directory
LastOfItsDirectory(i) ==
    \A j \in (i + 1)..Len(lines) : Parent(lines[j].path) # Parent(lines[i].path)

\* the entry at path p is a directory
IsDir(p) == \E e \in tree : e.path = p /\ e.is_dir

\* the walk can come to the entry at p: no name on the way is skipped and
\* every directory above it can be listed
Walkable(p) ==
    /\ \A n \in 1..Len(p) : p[n] \notin IgnoreSet
    /\ \A n \in 0..(Len(p) - 1) : Readable(tree, SubSeq(p, 1, n))

\* C15: in every directory that renders an entry, the last rendered entry
\* carries the connector "└── " and the lines of its subtree have blanks, not
\* a bar, in its column; every earlier rendered entry carries "├── "; also
\* when some children of the directory are in the ignore-set.
C15_LastEntryConnector ==
    Rendered =>
      \A i \in 1..Len(lines) :
        LET d == Len(lines[i].path) IN
          IF LastOfItsDirectory(i)
          THEN /\ Column(i, d) = LastConnector
               /\ \A j \in 1..Len(lines) :
                    Beneath(lines[j].path, lines[i].path) => Column(j, d) = Blank
          ELSE Column(i, d) = MidConnector

\* C16: the rendered children of each directory come directories first, each
\* group ordered by name; no rendered entry has a name of the ignore-set on
\* its path; all runs over one structure return the same text.
C16_SortedFilteredDeterministic ==
    Rendered =>
      /\ \A i, j \in 1..Len(lines) :
           (i < j /\ Parent(lines[i].path) = Parent(lines[j].path)) =>
             \/ IsDir(lines[i].path) /\ ~IsDir(lines[j].path)
             \/ /\ IsDir(lines[i].path) = IsDir(lines[j].path)
                /\ LexLess(Name(lines[i]), Name(lines[j]))
      /\ \A i \in 1..Len(lines) :
           /\ \A n \in 1..Len(lines[i].path) : lines[i].path[n] \notin IgnoreSet
           /\ lines[i].path \in {e.path : e \in tree}
      /\ \A i, j \in 1..Len(texts) : texts[i] = texts[j]

\* two runs over a directory that holds two directories and two files that
\* are rendered and a directory of the ignore-set with a file in it
C16_Witness ==
    /\ Rendered
    /\ Len(texts) >= 2
    /\ Entry(<<NameVenv, NameB>>, FALSE, TRUE) \in tree
    /\ {<<NameA>>, <<NameSrc>>, <<NameReadme>>, <<NameB>>}
         \subseteq {lines[i].path : i \in 1..Len(lines)}

\* C17: with max_depth 3, every entry up to max_depth + 1 levels below the
\* root that the walk can come to is listed, directories included, and no
\* line is made for an entry that lies deeper, so a directory at level
\* max_depth + 1 is listed without its children.
C17_DepthBound ==
    Rendered =>
      /\ \A e \in tree :
           (Len(e.path) <= max_depth + 1 /\ Walkable(e.path)) =>
             \E i \in 1..Len(lines) : lines[i].path = e.path
      /\ \A i \in 1..Len(lines) : Len(lines[i].path) <= max_depth + 1

\* a directory at level max_depth + 1 is listed and holds an entry that the
\* walk could come to but for the depth
C17_Witness ==
    /\ Rendered
    /\ \E e \in tree :
         /\ Len(e.path) = max_depth + 2
         /\ Walkable(e.path)
         /\ IsDir(Parent(e.path))
         /\ \E i \in 1..Len(lines) : lines[i].path = Parent(e.path)

====
